---- MODULE Spec2Model ----
(***************************************************************************)
(* A model of the signed causal-path discovery core of TieDIE's            *)
(* lib/tiedie_util.py: classifyInteraction, isRewired, searchDFS,          *)
(* classifyState, parseNet and connectedSubnets.                           *)
(*                                                                         *)
(* An interaction label is a sequence of one-character strings, so that    *)
(* the regular expressions of classifyInteraction and isRewired are        *)
(* computed on the characters of the label.                                *)
(***************************************************************************)
EXTENDS Integers, Sequences, FiniteSets, TLC

(***************************************************************************)
(* Bounds of the model.                                                    *)
(***************************************************************************)
MaxDepth == 3
MaxEdges == 3

\* Python's None (action_this_target and this_state start as None); the
\* signs of the program are 1 and -1, so 0 stands for None.
None == 0

(***************************************************************************)
(* Interaction labels, and the characters of each.                         *)
(***************************************************************************)
Labels ==
  {"-a>", "-a|", "-t>", "-t|", "t>", "t|", "component>", "-component>",
   "REWIRED>", "REWIRED|", "HPRD>"}

Chars(i) ==
  CASE i = "-a>" -> <<"-", "a", ">">>
    [] i = "-a|" -> <<"-", "a", "|">>
    [] i = "-t>" -> <<"-", "t", ">">>
    [] i = "-t|" -> <<"-", "t", "|">>
    [] i = "t>" -> <<"t", ">">>
    [] i = "t|" -> <<"t", "|">>
    [] i = "component>" -> <<"c", "o", "m", "p", "o", "n", "e", "n", "t", ">">>
    [] i = "-component>" -> <<"-", "c", "o", "m", "p", "o", "n", "e", "n", "t", ">">>
    [] i = "REWIRED>" -> <<"R", "E", "W", "I", "R", "E", "D", ">">>
    [] i = "REWIRED|" -> <<"R", "E", "W", "I", "R", "E", "D", "|">>
    [] i = "HPRD>" -> <<"H", "P", "R", "D", ">">>

(***************************************************************************)
(* Regular expressions, on the characters of a label.                      *)
(***************************************************************************)
\* \S : one character that is not white space
NonSpace(ch) == ch \notin {" ", "\t", "\n", "\r", "\f"}

\* ^-?<body>$ : the whole label is body, or "-" followed by body
MatchesOptDash(c, body) == c = body \/ c = <<"-">> \o body

\* ^-?(\S)<last>$ : an optional "-", one non-space character, then last
MatchesOptDashOne(c, last) ==
  \/ Len(c) = 2 /\ NonSpace(c[1]) /\ c[2] = last
  \/ Len(c) = 3 /\ c[1] = "-" /\ NonSpace(c[2]) /\ c[3] = last

\* group(1) of ^-?(\S)<last>$ : the character before last
GroupOne(c) == c[Len(c) - 1]

\* .*<sub>.* under re.match : sub occurs somewhere in the label
Contains(c, sub) ==
  \E k \in 1..Len(c) :
    /\ k + Len(sub) - 1 <= Len(c)
    /\ SubSeq(c, k, k + Len(sub) - 1) = sub

\* the pattern without its optional "-"
componentRENoDash(c) == c = <<"c", "o", "m", "p", "o", "n", "e", "n", "t", ">">>

componentRE(c) == MatchesOptDash(c, <<"c", "o", "m", "p", "o", "n", "e", "n", "t", ">">>)
activatingRE(c) == MatchesOptDashOne(c, ">")
inactivatingRE(c) == MatchesOptDashOne(c, "|")
rewiredAC(c) == MatchesOptDash(c, <<"R", "E", "W", "I", "R", "E", "D", ">">>)
rewiredIN(c) == MatchesOptDash(c, <<"R", "E", "W", "I", "R", "E", "D", "|">>)
rewiredRE(c) == Contains(c, <<"R", "E", "W", "I", "R", "E", "D">>)
rewiredComponentRE(c) == Contains(c, <<"-", "c", "o", "m", "p", "o", "n", "e", "n", "t">>)

\* lines 97-140
classifyInteraction(i) ==
  LET c == Chars(i) IN
  IF componentRE(c) THEN <<0, "component">>
  ELSE IF activatingRE(c) THEN <<1, GroupOne(c)>>
  ELSE IF inactivatingRE(c) THEN <<-1, GroupOne(c)>>
  ELSE IF rewiredAC(c) THEN <<1, "REWIRED">>
  ELSE IF rewiredIN(c) THEN <<-1, "REWIRED">>
  ELSE <<1, "INTERACTS">>

\* lines 199-208
isRewired(i) ==
  LET c == Chars(i) IN
  IF rewiredRE(c) THEN TRUE
  ELSE IF rewiredComponentRE(c) THEN TRUE
  ELSE FALSE

\* both functions of the label, tabulated
Classified == [i \in Labels |-> classifyInteraction(i)]

Rewired == [i \in Labels |-> isRewired(i)]

(***************************************************************************)
(* State.                                                                  *)
(***************************************************************************)
VARIABLES
  \* searchDFS
  net,             \* {source: set of (interaction, target)}
  gene_states,     \* {gene: 1 or -1}
  target_set,      \* set of genes
  call,            \* the arguments of the outermost searchDFS call
  stack,           \* the active searchDFS calls, innermost last
  discovered,      \* set of (source, interaction, target)
  truePaths,       \* list of genes
  falsePaths,      \* list of genes
  ev,              \* the step just taken: the locals of the loop iteration,
                   \* and the call and the accumulators as they were before it
  first,           \* <<>>, or <<what an earlier search on the same arguments
                   \* left in discovered, truePaths and falsePaths>>
  \* classifyState
  up_signs,        \* {gene: "+" or "-"}
  down_signs,      \* {gene: "+" or "-"}
  c,               \* {gene: 1 or -1}
  t_states,        \* {gene: 1 or -1}
  down_todo,       \* genes the first loop has yet to visit
  up_todo,         \* genes the second loop has yet to visit
  result,          \* <<>>, or <<the tuple classifyState returned>>
  \* connectedSubnets
  network,         \* {source: set of (interaction, target)}
  subnet_nodes,    \* set of nodes
  sources_todo,    \* keys of network the outer loop has yet to visit
  s_cur,           \* <<>>, or <<the key the outer loop is at>>
  edges_todo,      \* pairs of network[s] the inner loop has yet to visit
  edgelist,        \* set of (source, target)
  ugraph,          \* set of (source, target)
  validated_edges, \* <<>>, or <<the set connectedSubnets returned>>
  \* parseNet
  file,            \* the lines of the file, each split on tabs
  lines,           \* the lines not yet read
  gene_universe,   \* <<>> for None, or <<the set given>>
  pn_net,          \* the net under construction
  pn_returned      \* whether parseNet has returned pn_net

dfsVars ==
  <<net, gene_states, target_set, call, stack, discovered, truePaths,
    falsePaths, ev, first>>

csVars == <<up_signs, down_signs, c, t_states, down_todo, up_todo, result>>

snVars ==
  <<network, subnet_nodes, sources_todo, s_cur, edges_todo, edgelist, ugraph,
    validated_edges>>

pnVars == <<file, lines, gene_universe, pn_net, pn_returned>>

vars == <<dfsVars, csVars, snVars, pnVars>>

\* the empty dict
EmptyDict == [x \in {} |-> 0]

\* the state of each function while the model runs another one
IdleDFS ==
  /\ net = EmptyDict
  /\ gene_states = EmptyDict
  /\ target_set = {}
  /\ call = [source |-> "", action |-> 0, depth |-> 0]
  /\ stack = <<>>
  /\ discovered = {}
  /\ truePaths = <<>>
  /\ falsePaths = <<>>
  /\ ev = [kind |-> "idle"]
  /\ first = <<>>

IdleCS ==
  /\ up_signs = EmptyDict
  /\ down_signs = EmptyDict
  /\ c = EmptyDict
  /\ t_states = EmptyDict
  /\ down_todo = {}
  /\ up_todo = {}
  /\ result = <<>>

IdleSN ==
  /\ network = EmptyDict
  /\ subnet_nodes = {}
  /\ sources_todo = {}
  /\ s_cur = <<>>
  /\ edges_todo = {}
  /\ edgelist = {}
  /\ ugraph = {}
  /\ validated_edges = <<>>

IdlePN ==
  /\ file = <<>>
  /\ lines = <<>>
  /\ gene_universe = <<>>
  /\ pn_net = EmptyDict
  /\ pn_returned = FALSE

(***************************************************************************)
(* Networks.  The adjacency index holds a key for every source that has    *)
(* an edge, as parseNet builds it.                                         *)
(***************************************************************************)
NetOf(E) ==
  [s \in {e[1] : e \in E} |-> {<<e[2], e[3]>> : e \in {x \in E : x[1] = s}}]

\* The edges the networks of the search are drawn from: the cycle
\* S -> U -> S, the self-loop at U, and the edge T -t> U.
EdgeUniverse ==
  {<<"S", l, "T">> : l \in {"-a>", "-a|", "REWIRED>", "-component>"}}
  \cup {<<"S", "-a>", "U">>,
        <<"T", "-t>", "U">>,
        <<"U", "-a>", "S">>, <<"U", "-a>", "U">>}

Networks == {NetOf(E) : E \in {X \in SUBSET EdgeUniverse : Cardinality(X) <= MaxEdges}}

\* The action of the outermost call.  A search started with -1 is the
\* mirror image of one started with 1 on gene_states negated: the code
\* only copies the action and compares it with a state.
InitialActions == {1}

\* the genes some edge points to: gene_states and target_set are read at
\* the target of an edge only (lines 262-263, 272)
Targets(n) == UNION {{e[2] : e \in n[s]} : s \in DOMAIN n}

(***************************************************************************)
(* searchDFS (lines 213-300).                                              *)
(***************************************************************************)
Top == stack[Len(stack)]

Pop == SubSeq(stack, 1, Len(stack) - 1)

Frame(source, action, linker_nodes, depth, falsePathStatus, walk) ==
  [source |-> source, action |-> action, linker_nodes |-> linker_nodes,
   depth |-> depth, falsePathStatus |-> falsePathStatus,
   todo |-> IF source \in DOMAIN net THEN net[source] ELSE {}, walk |-> walk]

\* the call at the top of the stack and the accumulators, before a step
Before ==
  [depth |-> Top.depth, height |-> Len(stack), linker_nodes |-> Top.linker_nodes,
   discovered |-> discovered, truePaths |-> truePaths, falsePaths |-> falsePaths]

NoEv(kind, before) ==
  [kind |-> kind, source |-> "", action |-> None, interaction |-> "", target |-> "",
   i_type |-> 0, post_t_type |-> "", action_this_target |-> None,
   pathStatus_ThisTarget |-> FALSE, walk |-> <<>>, before |-> before]

\* the flag of the caller dropped
PathStatusEdgeOnly(falsePathStatus, interaction) == Rewired[interaction]

\* lines 244-247
PathStatusThisTarget(falsePathStatus, interaction) ==
  IF Rewired[interaction] THEN TRUE ELSE falsePathStatus

\* lines 254-258
ActionThisTarget(i_type, action) ==
  IF i_type = 1 THEN action
  ELSE IF i_type = 2 THEN -action
  ELSE None

\* lines 261-263
ThisState(target) ==
  IF target \in DOMAIN gene_states THEN gene_states[target] ELSE None

\* the membership in target_set dropped
IsMatchAnyTarget(target, action_this_target) ==
  /\ target \in DOMAIN gene_states
  /\ action_this_target = ThisState(target)

\* lines 272-273
IsMatch(target, action_this_target) ==
  /\ target \in DOMAIN gene_states
  /\ target \in target_set
  /\ action_this_target = ThisState(target)

\* the set bound to the chain and the edge, what it held dropped
DiscoverReplacing(linker_nodes, edge) == linker_nodes \cup {edge}

\* lines 275-277
Discover(linker_nodes, edge) == discovered \cup linker_nodes \cup {edge}

\* the chain of the caller dropped
NewLinkersEdgeOnly(linker_nodes, edge) == {edge}

\* lines 290-292
NewLinkers(linker_nodes, edge) == {edge} \cup linker_nodes

\* the cut dropped
CutsCycleNever(post_t_type) == FALSE

\* lines 296-297
CutsCycle(post_t_type) == post_t_type = "t"

\* the depth passed on as it is
CalleeDepthSame(depth) == depth

\* line 300: the depth of the call made on the target
CalleeDepth(depth) == depth - 1

\* the test of line 235 as depth < 0
ReturnsBelowZero(depth) == depth < 0

\* line 235
Returns(depth) == depth = 0

\* lines 235-236
DepthZero ==
  /\ stack /= <<>>
  /\ Returns(Top.depth)
  /\ stack' = Pop
  /\ ev' = NoEv("depthZero", Before)
  /\ UNCHANGED <<net, gene_states, target_set, call, discovered, truePaths, falsePaths,
               first, csVars, snVars, pnVars>>

\* lines 238-239
NotInNet ==
  /\ stack /= <<>>
  /\ ~Returns(Top.depth)
  /\ Top.source \notin DOMAIN net
  /\ stack' = Pop
  /\ ev' = NoEv("notInNet", Before)
  /\ UNCHANGED <<net, gene_states, target_set, call, discovered, truePaths, falsePaths,
               first, csVars, snVars, pnVars>>

\* the call passed lines 235-239 and is in the loop of line 241
InLoop ==
  /\ stack /= <<>>
  /\ ~Returns(Top.depth)
  /\ Top.source \in DOMAIN net

\* lines 241-300: one iteration of the loop, on the edge the set iterator
\* yields next (a set is iterated in an order the program does not choose)
LoopBody(interaction, target) ==
  /\ InLoop
  /\ <<interaction, target>> \in Top.todo
  /\ LET f == Top
         n == Len(stack)
         edge == <<f.source, interaction, target>>
         pathStatus_ThisTarget == PathStatusThisTarget(f.falsePathStatus, interaction)
         cls == Classified[interaction]
         i_type == cls[1]
         post_t_type == cls[2]
         action_this_target == ActionThisTarget(i_type, f.action)
         match == IsMatch(target, action_this_target)
         new_linkers == IF match THEN {} ELSE NewLinkers(f.linker_nodes, edge)
         recurse == i_type /= 0 /\ ~CutsCycle(post_t_type)
         rest == [f EXCEPT !.todo = f.todo \ {<<interaction, target>>},
                           !.linker_nodes =
                             IF i_type /= 0 /\ match THEN {} ELSE f.linker_nodes]
         callee == Frame(target, action_this_target, new_linkers, CalleeDepth(f.depth),
                         pathStatus_ThisTarget, Append(f.walk, edge))
     IN
       /\ ev' = [kind |-> "edge", source |-> f.source, action |-> f.action,
                 interaction |-> interaction,
                 target |-> target, i_type |-> i_type, post_t_type |-> post_t_type,
                 action_this_target |-> IF i_type = 0 THEN None ELSE action_this_target,
                 pathStatus_ThisTarget |-> pathStatus_ThisTarget,
                 walk |-> Append(f.walk, edge), before |-> Before]
       /\ IF i_type = 0
          THEN /\ stack' = [stack EXCEPT ![n] = rest]
               /\ UNCHANGED <<discovered, truePaths, falsePaths>>
          ELSE /\ IF match
                  THEN /\ discovered' = Discover(f.linker_nodes, edge)
                       /\ IF pathStatus_ThisTarget = TRUE
                          THEN /\ falsePaths' = Append(falsePaths, target)
                               /\ UNCHANGED truePaths
                          ELSE /\ truePaths' = Append(truePaths, target)
                               /\ UNCHANGED falsePaths
                  ELSE UNCHANGED <<discovered, truePaths, falsePaths>>
               /\ stack' = IF recurse
                           THEN Append([stack EXCEPT ![n] = rest], callee)
                           ELSE [stack EXCEPT ![n] = rest]
  /\ UNCHANGED <<net, gene_states, target_set, call, first, csVars, snVars, pnVars>>

\* the loop of line 241 is exhausted: the call returns
LoopEnd ==
  /\ InLoop
  /\ Top.todo = {}
  /\ stack' = Pop
  /\ ev' = NoEv("loopEnd", Before)
  /\ UNCHANGED <<net, gene_states, target_set, call, discovered, truePaths, falsePaths,
               first, csVars, snVars, pnVars>>

Init ==
  /\ net \in Networks
  /\ gene_states \in UNION {[D -> {1, -1}] : D \in SUBSET Targets(net)}
  /\ target_set \in SUBSET Targets(net)
  /\ call \in [source : {"S"}, action : InitialActions, depth : 0..MaxDepth]
  /\ stack = <<Frame(call.source, call.action, {}, call.depth, FALSE, <<>>)>>
  /\ discovered = {}
  /\ truePaths = <<>>
  /\ falsePaths = <<>>
  /\ ev = NoEv("init", [depth |-> call.depth, height |-> 0, linker_nodes |-> {},
                         discovered |-> {}, truePaths |-> <<>>, falsePaths |-> <<>>])
  /\ first = <<>>
  /\ IdleCS
  /\ IdleSN
  /\ IdlePN

Step ==
  /\ stack /= <<>>
  /\ \E e \in Top.todo : LoopBody(e[1], e[2])

Next ==
  \/ DepthZero
  \/ NotInNet
  \/ Step
  \/ LoopEnd

Spec == Init /\ [][Next]_vars

Done == stack = <<>>

\* The caller searches a second time on the same arguments, with a new
\* empty set and two new empty lists (line 213: the three are parameters).
Rerun ==
  /\ Done
  /\ first = <<>>
  /\ first' = <<[discovered |-> discovered, truePaths |-> truePaths,
                 falsePaths |-> falsePaths]>>
  /\ stack' = <<Frame(call.source, call.action, {}, call.depth, FALSE, <<>>)>>
  /\ discovered' = {}
  /\ truePaths' = <<>>
  /\ falsePaths' = <<>>
  /\ ev' = NoEv("init", [depth |-> call.depth, height |-> 0, linker_nodes |-> {},
                          discovered |-> {}, truePaths |-> <<>>, falsePaths |-> <<>>])
  /\ UNCHANGED <<net, gene_states, target_set, call, csVars, snVars, pnVars>>

\* The searches in which the genes that have a state are the targets.
\* gene_states and target_set are read at lines 262-263 and 272-273 only,
\* and line 272 is false for a gene that lacks a state or is not a target:
\* a search runs as the search on target_set \cap keys(gene_states) and
\* gene_states restricted to it.
InitMatchable == Init /\ target_set = DOMAIN gene_states

NextTwoRuns ==
  \/ Next
  \/ Rerun

SpecTwoRuns == InitMatchable /\ [][NextTwoRuns]_vars

\* The program is sequential: a call that can take a step takes it.
SpecTerminates == InitMatchable /\ [][Next]_vars /\ WF_vars(Next)

(***************************************************************************)
(* classifyState (lines 302-329).  Each loop visits the keys of its dict   *)
(* in an order the program does not choose.                                *)
(***************************************************************************)
Genes == {"A", "B", "C"}

SignMaps == UNION {[D -> {"+", "-"}] : D \in SUBSET Genes}

\* d[k] = v
DictSet(d, k, v) == [x \in DOMAIN d \cup {k} |-> IF x = k THEN v ELSE d[x]]

\* lines 315-320, 324-327
SignValue(sign) == IF sign = "+" THEN 1 ELSE -1

\* the assignment made only for a gene the first loop has not set
UpAssignIfAbsent(cmap, gene) ==
  IF gene \in DOMAIN cmap THEN cmap
  ELSE DictSet(cmap, gene, SignValue(up_signs[gene]))

\* lines 324-327
UpAssign(cmap, gene) == DictSet(cmap, gene, SignValue(up_signs[gene]))

\* lines 314-320
DownLoop(gene) ==
  /\ result = <<>>
  /\ gene \in down_todo
  /\ c' = DictSet(c, gene, SignValue(down_signs[gene]))
  /\ t_states' = DictSet(t_states, gene, SignValue(down_signs[gene]))
  /\ down_todo' = down_todo \ {gene}
  /\ UNCHANGED <<up_signs, down_signs, up_todo, result, dfsVars, snVars, pnVars>>

\* lines 323-327
UpLoop(gene) ==
  /\ result = <<>>
  /\ down_todo = {}
  /\ gene \in up_todo
  /\ c' = UpAssign(c, gene)
  /\ up_todo' = up_todo \ {gene}
  /\ UNCHANGED <<up_signs, down_signs, t_states, down_todo, result, dfsVars, snVars,
                 pnVars>>

\* line 329
ReturnStates ==
  /\ result = <<>>
  /\ down_todo = {}
  /\ up_todo = {}
  /\ result' = << <<c, t_states>> >>
  /\ UNCHANGED <<up_signs, down_signs, c, t_states, down_todo, up_todo, dfsVars,
                 snVars, pnVars>>

InitClassifyState ==
  /\ up_signs \in SignMaps
  /\ down_signs \in SignMaps
  /\ c = EmptyDict
  /\ t_states = EmptyDict
  /\ down_todo = DOMAIN down_signs
  /\ up_todo = DOMAIN up_signs
  /\ result = <<>>
  /\ IdleDFS
  /\ IdleSN
  /\ IdlePN

NextClassifyState ==
  \/ \E gene \in Genes : DownLoop(gene)
  \/ \E gene \in Genes : UpLoop(gene)
  \/ ReturnStates

SpecClassifyState == InitClassifyState /\ [][NextClassifyState]_vars

(***************************************************************************)
(* connectedSubnets (lines 400-450).                                       *)
(***************************************************************************)
SubnetNodes == {"A", "B", "C", "D"}

\* The edges the networks of connectedSubnets are drawn from: two labels on
\* A -> B, both directions between A and B, a self-link, a second component
\* C - D and edges joining the two.
SubnetEdgeUniverse ==
  {<<"A", "a>", "B">>, <<"A", "t|", "B">>, <<"B", "a>", "A">>, <<"A", "a>", "A">>,
   <<"C", "a>", "D">>, <<"D", "t|", "C">>, <<"B", "a>", "C">>, <<"C", "a>", "A">>}

SubnetNetworks ==
  {NetOf(E) : E \in {X \in SUBSET SubnetEdgeUniverse : Cardinality(X) <= MaxEdges}}

\* line 436 with the test inverted
UgraphAddIfReverse(s, t) ==
  IF <<t, s>> \in edgelist \cup {<<s, t>>} THEN ugraph \cup {<<s, t>>} ELSE ugraph

\* lines 436-437, after line 435 added (s, t) to edgelist
UgraphAdd(s, t) ==
  IF <<t, s>> \notin edgelist \cup {<<s, t>>} THEN ugraph \cup {<<s, t>>} ELSE ugraph

\* lines 440-441: the nodes of nx.Graph() after add_edges_from(list(ugraph))
GNodes(ug) == {e[1] : e \in ug} \cup {e[2] : e \in ug}

\* lines 444-448
ValidatedEdges(el, ug) == {e \in el : e[1] \in GNodes(ug) /\ e[2] \in GNodes(ug)}

\* line 429: the outer loop comes to the next key
OuterLoop(s) ==
  /\ validated_edges = <<>>
  /\ edges_todo = {}
  /\ s \in sources_todo
  /\ sources_todo' = sources_todo \ {s}
  /\ s_cur' = <<s>>
  /\ edges_todo' = network[s]
  /\ UNCHANGED <<network, subnet_nodes, edgelist, ugraph, validated_edges, dfsVars,
                 csVars, pnVars>>

\* lines 430-437
InnerLoop(i, t) ==
  /\ validated_edges = <<>>
  /\ <<i, t>> \in edges_todo
  /\ edges_todo' = edges_todo \ {<<i, t>>}
  /\ LET s == s_cur[1] IN
       IF s = t
       THEN UNCHANGED <<edgelist, ugraph>>
       ELSE IF s \in subnet_nodes /\ t \in subnet_nodes
            THEN /\ edgelist' = edgelist \cup {<<s, t>>}
                 /\ ugraph' = UgraphAdd(s, t)
            ELSE UNCHANGED <<edgelist, ugraph>>
  /\ UNCHANGED <<network, subnet_nodes, sources_todo, s_cur, validated_edges, dfsVars,
                 csVars, pnVars>>

\* lines 439-450
ReturnSubnets ==
  /\ validated_edges = <<>>
  /\ edges_todo = {}
  /\ sources_todo = {}
  /\ validated_edges' = <<ValidatedEdges(edgelist, ugraph)>>
  /\ UNCHANGED <<network, subnet_nodes, sources_todo, s_cur, edges_todo, edgelist,
                 ugraph, dfsVars, csVars, pnVars>>

InitConnectedSubnets ==
  /\ network \in SubnetNetworks
  /\ subnet_nodes \in SUBSET SubnetNodes
  /\ sources_todo = DOMAIN network
  /\ s_cur = <<>>
  /\ edges_todo = {}
  /\ edgelist = {}
  /\ ugraph = {}
  /\ validated_edges = <<>>
  /\ IdleDFS
  /\ IdleCS
  /\ IdlePN

NextConnectedSubnets ==
  \/ \E s \in SubnetNodes : OuterLoop(s)
  \/ \E e \in edges_todo : InnerLoop(e[1], e[2])
  \/ ReturnSubnets

SpecConnectedSubnets == InitConnectedSubnets /\ [][NextConnectedSubnets]_vars

(***************************************************************************)
(* parseNet (lines 332-363).  A line is the triple its split on tabs       *)
(* gives (lines 349-352).                                                  *)
(***************************************************************************)
MaxLines == 2

FileNodes == {"A", "B"}

FileLines == FileNodes \X {"-a>", "-t|"} \X FileNodes

Files == UNION {[1..n -> FileLines] : n \in 0..MaxLines}

\* the truth value Python gives gene_universe: None and the empty set are false
Truthy(gu) == gu /= <<>> /\ gu[1] /= {}

\* line 355
Restrict(source, target) ==
  Truthy(gene_universe)
  /\ (source \notin gene_universe[1] \/ target \notin gene_universe[1])

\* lines 347-361
ReadLine ==
  /\ ~pn_returned
  /\ lines /= <<>>
  /\ LET source == Head(lines)[1]
         interaction == Head(lines)[2]
         target == Head(lines)[3]
     IN IF Restrict(source, target)
        THEN UNCHANGED pn_net
        ELSE pn_net' =
               DictSet(pn_net, source,
                       (IF source \in DOMAIN pn_net THEN pn_net[source] ELSE {})
                         \cup {<<interaction, target>>})
  /\ lines' = Tail(lines)
  /\ UNCHANGED <<file, gene_universe, pn_returned, dfsVars, csVars, snVars>>

\* line 363
ReturnNet ==
  /\ ~pn_returned
  /\ lines = <<>>
  /\ pn_returned' = TRUE
  /\ UNCHANGED <<file, lines, gene_universe, pn_net, dfsVars, csVars, snVars>>

InitParseNet ==
  /\ file \in Files
  /\ lines = file
  /\ gene_universe \in {<<>>} \cup {<<X>> : X \in SUBSET FileNodes}
  /\ pn_net = EmptyDict
  /\ pn_returned = FALSE
  /\ IdleDFS
  /\ IdleCS
  /\ IdleSN

NextParseNet ==
  \/ ReadLine
  \/ ReturnNet

SpecParseNet == InitParseNet /\ [][NextParseNet]_vars

(***************************************************************************)
(* Properties of searchDFS.                                                *)
(***************************************************************************)
\* the step just taken is an iteration of the loop of line 241
EdgeStep == ev.kind = "edge"

\* the step left discovered, truePaths and falsePaths as they were
AccumulatorsKept ==
  /\ discovered = ev.before.discovered
  /\ truePaths = ev.before.truePaths
  /\ falsePaths = ev.before.falsePaths

\* the step appended gene t to exactly one of truePaths and falsePaths
AppendedToOne(t) ==
  \/ truePaths = Append(ev.before.truePaths, t) /\ falsePaths = ev.before.falsePaths
  \/ falsePaths = Append(ev.before.falsePaths, t) /\ truePaths = ev.before.truePaths

\* the step made no call and returned from none
SameHeight == Len(stack) = ev.before.height

\* lines 272-273 for the edge of the iteration, on the action it propagated
EdgeMatches ==
  /\ ev.target \in DOMAIN gene_states
  /\ ev.target \in target_set
  /\ ev.action_this_target = gene_states[ev.target]

SingleEdgeRun(interaction, state, depth) ==
  /\ net = NetOf({<<"S", interaction, "T">>})
  /\ gene_states = [g \in {"T"} |-> state]
  /\ target_set = {"T"}
  /\ call = [source |-> "S", action |-> 1, depth |-> depth]

\* C1: an iteration on an edge of non-zero sign records a match (the target
\* appended to exactly one of truePaths and falsePaths, the edge added to
\* discovered) if and only if the target is a key of gene_states, is in
\* target_set and the action propagated over the edge equals its state;
\* otherwise the iteration leaves the three accumulators alone.  The run on
\* {S: {(-a>, T)}}, gene_states {T: 1}, target_set {T}, action 1, depth 2
\* ends with discovered = {(S, -a>, T)}, truePaths = [T], falsePaths = [].
C1_MatchIffStateTargetAction ==
  /\ (EdgeStep /\ ev.i_type /= 0) =>
       IF EdgeMatches
       THEN /\ AppendedToOne(ev.target)
            /\ <<ev.source, ev.interaction, ev.target>> \in discovered
       ELSE AccumulatorsKept
  /\ (SingleEdgeRun("-a>", 1, 2) /\ Done) =>
       /\ discovered = {<<"S", "-a>", "T">>}
       /\ truePaths = <<"T">>
       /\ falsePaths = <<>>

C1_Witness ==
  /\ SingleEdgeRun("-a>", 1, 2)
  /\ Done
  /\ truePaths = <<"T">>
  /\ discovered = {<<"S", "-a>", "T">>}

\* some edge of the walk w carries a label for which isRewired is true
WalkRewired(w) == \E k \in 1..Len(w) : isRewired(w[k][2])

\* C2: started with falsePathStatus = False, a matched target is appended
\* to falsePaths if and only if some edge of the walk from the initial
\* source up to and including the matching edge is rewired, and to truePaths
\* otherwise.  The run on {S: {(REWIRED>, T)}}, gene_states {T: 1},
\* target_set {T}, action 1, depth 2 ends with falsePaths = [T] and
\* truePaths = [].
C2_FalsePathIffRewiredOnWalk ==
  /\ (EdgeStep /\ ~(truePaths = ev.before.truePaths /\ falsePaths = ev.before.falsePaths)) =>
       IF WalkRewired(ev.walk)
       THEN /\ falsePaths = Append(ev.before.falsePaths, ev.target)
            /\ truePaths = ev.before.truePaths
       ELSE /\ truePaths = Append(ev.before.truePaths, ev.target)
            /\ falsePaths = ev.before.falsePaths
  /\ (SingleEdgeRun("REWIRED>", 1, 2) /\ Done) =>
       falsePaths = <<"T">> /\ truePaths = <<>>

\* the flag survives the reset of the linker chain at the matched target T
\* and the canonical edge T -t> U
C2_Witness ==
  /\ EdgeStep
  /\ ev.walk = <<<<"S", "REWIRED>", "T">>, <<"T", "-t>", "U">>>>
  /\ falsePaths = <<"T", "U">>
  /\ truePaths = <<>>

\* C3: over an edge of sign -1 the propagated action is the negation of the
\* incoming action, over an edge of sign 1 it is the incoming action; so on
\* {S: {(-a|, T)}}, gene_states {T: -1}, target_set {T}, action 1 and
\* depth >= 1, T is matched and (S, -a|, T) is discovered.
C3_InhibitingEdgeNegates ==
  /\ (EdgeStep /\ ev.i_type = -1) => ev.action_this_target = -ev.action
  /\ (EdgeStep /\ ev.i_type = 1) => ev.action_this_target = ev.action
  /\ \A d \in 1..MaxDepth :
       (SingleEdgeRun("-a|", -1, d) /\ Done) =>
         /\ <<"S", "-a|", "T">> \in discovered
         /\ truePaths = <<"T">>

\* C6: a call with depth = 0 returns at once: the step taken from it pops
\* it, makes no call and leaves discovered, truePaths and falsePaths as they
\* were; and a search started with depth 0 leaves them empty.
C6_DepthZeroReturns ==
  /\ (ev.kind /= "init" /\ ev.before.depth = 0) =>
       /\ Len(stack) = ev.before.height - 1
       /\ AccumulatorsKept
  /\ (call.depth = 0) =>
       discovered = {} /\ truePaths = <<>> /\ falsePaths = <<>>

\* a nested call with depth 0 has returned, the accumulators not empty
C6_Witness ==
  /\ ev.kind /= "init"
  /\ ev.before.depth = 0
  /\ stack /= <<>>
  /\ discovered /= {}
  /\ truePaths /= <<>>

ComponentLabels == {"component>", "-component>"}

NoComponentEdge(edges) == \A e \in edges : e[2] \notin ComponentLabels

\* C7: no component edge is ever added to discovered, recorded as a match,
\* placed in a linker chain or recursed through; a network of component
\* edges only yields empty discovered, truePaths and falsePaths.
C7_ComponentEdgesNeverFollowed ==
  /\ \A l \in ComponentLabels : classifyInteraction(l)[1] = 0
  /\ NoComponentEdge(discovered)
  /\ \A k \in 1..Len(stack) :
       /\ NoComponentEdge(stack[k].linker_nodes)
       /\ \A j \in 1..Len(stack[k].walk) : stack[k].walk[j][2] \notin ComponentLabels
  /\ (EdgeStep /\ ev.interaction \in ComponentLabels) =>
       /\ AccumulatorsKept
       /\ SameHeight
       /\ Top.linker_nodes = ev.before.linker_nodes
  /\ (\A s \in DOMAIN net : \A e \in net[s] : e[1] \in ComponentLabels) =>
       discovered = {} /\ truePaths = <<>> /\ falsePaths = <<>>

\* the loop came to a component edge into a gene that would have matched
C7_Witness ==
  /\ EdgeStep
  /\ ev.interaction = "-component>"
  /\ ev.target \in target_set
  /\ ev.target \in DOMAIN gene_states
  /\ gene_states[ev.target] = ev.action
  /\ discovered = {}

TLabels == {"-t>", "-t|", "t>", "t|"}

CycleNet == NetOf({<<"S", "-a>", "T">>, <<"T", "-t>", "U">>, <<"U", "-a>", "S">>})

\* C8: no call is made from the target of a 't' edge, matched or not, so a
\* 't' edge is the last edge of any walk of the search; a match through the
\* 't' edge itself is recorded.  In the cycle S -a> T -t> U -a> S started at
\* S the edge U -a> S is never iterated.
C8_TranscriptionalEdgeCutsWalk ==
  /\ \A l \in TLabels : classifyInteraction(l)[2] = "t"
  /\ (EdgeStep /\ ev.interaction \in TLabels) =>
       /\ SameHeight
       /\ EdgeMatches =>
            /\ <<ev.source, ev.interaction, ev.target>> \in discovered
            /\ AppendedToOne(ev.target)
  /\ \A k \in 1..Len(stack) : \A j \in 1..Len(stack[k].walk) :
       stack[k].walk[j][2] \notin TLabels
  /\ EdgeStep => \A j \in 1..(Len(ev.walk) - 1) : ev.walk[j][2] \notin TLabels
  /\ (net = CycleNet /\ call.source = "S") => ~(EdgeStep /\ ev.source = "U")

\* in the cycle, the search matched U over T -t> U with depth left and
\* stayed in the call at T
C8_Witness ==
  /\ net = CycleNet
  /\ call.depth = 3
  /\ EdgeStep
  /\ ev.interaction = "-t>"
  /\ ev.target = "U"
  /\ <<"T", "-t>", "U">> \in discovered
  /\ Len(stack) = 2

\* the edges of the walk w
WalkEdges(w) == {w[k] : k \in 1..Len(w)}

NetEdges == UNION {{<<s, e[1], e[2]>> : e \in net[s]} : s \in DOMAIN net}

\* the loop goes on past line 251 on the edge e
Followed(e) == Classified[e[2]][1] /= 0

\* a call is made on the target of the edge e
Through(e) == Followed(e) /\ Classified[e[2]][2] /= "t"

\* the walks of n edges the search can make from the initial source: edges
\* of the network, each leaving the target of the one before, none a
\* component edge, none but the last a 't' edge
RECURSIVE SearchWalks(_)
SearchWalks(n) ==
  IF n = 1
  THEN {<<e>> : e \in {x \in NetEdges : x[1] = call.source /\ Followed(x)}}
  ELSE UNION {{Append(w, e) : e \in {x \in NetEdges : x[1] = w[n - 1][3] /\ Followed(x)}} :
                w \in {v \in SearchWalks(n - 1) : Through(v[n - 1])}}

\* the action that arrives at the end of the walk w
RECURSIVE ActionAlong(_, _)
ActionAlong(w, action) ==
  IF w = <<>> THEN action
  ELSE ActionAlong(Tail(w), ActionThisTarget(Classified[w[1][2]][1], action))

\* the walks of at most call.depth edges whose last edge matches
MatchedWalks ==
  {w \in UNION {SearchWalks(n) : n \in 1..call.depth} :
     IsMatch(w[Len(w)][3], ActionAlong(w, call.action))}

\* C11: discovered starts empty; an iteration that records a match at the
\* end of the walk e1, ..., ek adds exactly the edges of that walk that are
\* not yet in discovered, also when the linker chain of a call on the walk
\* was emptied by an earlier match of a sibling edge; any other step leaves
\* discovered alone.  So when the search has returned, discovered is the
\* set of the edges of the walks that end in a matching edge.
C11_DiscoveredIsMatchedWalks ==
  /\ ev.kind = "init" => discovered = {}
  /\ EdgeStep =>
       discovered = ev.before.discovered
                      \cup (IF EdgeMatches /\ ev.i_type /= 0 THEN WalkEdges(ev.walk) ELSE {})
  /\ ev.kind \in {"depthZero", "notInNet", "loopEnd"} =>
       discovered = ev.before.discovered
  /\ Done => discovered = UNION {WalkEdges(w) : w \in MatchedWalks}

\* U -a> S matched first in the call at U and emptied its chain; the walk
\* went on over the self-loop and matched S again, with a chain that has
\* lost S -a> U
C11_Witness ==
  /\ EdgeStep
  /\ EdgeMatches
  /\ ev.walk = <<<<"S", "-a>", "U">>, <<"U", "-a>", "U">>, <<"U", "-a>", "S">>>>
  /\ ev.before.linker_nodes = {<<"U", "-a>", "U">>}
  /\ WalkEdges(ev.walk) \subseteq discovered

\* the calls in progress have depths call.depth, call.depth - 1, ..., none
\* below 0
DepthsCountDown ==
  \A k \in 1..Len(stack) :
    /\ stack[k].depth = call.depth - (k - 1)
    /\ stack[k].depth >= 0

\* C12: the search returns, on every network and from every depth >= 0:
\* each call in progress has depth one less than its caller and none has
\* depth below 0, so at most call.depth calls are nested inside the
\* outermost one (call.depth + 1 in progress, the last of them with depth 0
\* and about to return at line 236); a gene already on the walk is entered
\* again, the depth alone bounds the search.
C12_SearchTerminates ==
  /\ [](DepthsCountDown /\ Len(stack) <= call.depth + 1)
  /\ <>Done

\* the search went round the cycle S -> U -> S and the self-loop at U as
\* far as the depth allows: S and U are entered twice on one branch
C12_Witness ==
  /\ call.depth = MaxDepth
  /\ Len(stack) = call.depth + 1
  /\ Top.depth = 0
  /\ \E i, j \in 1..Len(stack) : i < j /\ stack[i].source = stack[j].source
  /\ \E k \in 1..(Len(stack) - 1) : stack[k].source = stack[k + 1].source

\* the second search has returned
SecondDone == first /= <<>> /\ Done

\* the lists a and b hold the same genes, each as many times
SameBag(a, b) ==
  \A g \in {a[k] : k \in 1..Len(a)} \cup {b[k] : k \in 1..Len(b)} :
    Cardinality({k \in 1..Len(a) : a[k] = g}) = Cardinality({k \in 1..Len(b) : b[k] = g})

\* the edge at the end of the walk w matches, by the arguments of the
\* search alone
WalkMatches(w) == IsMatch(w[Len(w)][3], ActionAlong(w, call.action))

\* C13: a second search on the same source, action, network, gene states,
\* target set and depth, started on empty accumulators and free to iterate
\* the edges of each gene in another order, returns with the discovered set
\* of the first, and with truePaths and falsePaths holding the genes of the
\* first, each as many times: only their order can differ.  What an
\* iteration does to the three is fixed by the arguments and by the walk to
\* the edge it is at, so searches that iterate in the same order build the
\* same lists, element for element.
C13_SameDiscoveredInAnyOrder ==
  /\ SecondDone =>
       /\ discovered = first[1].discovered
       /\ SameBag(truePaths, first[1].truePaths)
       /\ SameBag(falsePaths, first[1].falsePaths)
  /\ EdgeStep =>
       LET matched == WalkMatches(ev.walk)
           rewired == WalkRewired(ev.walk)
       IN /\ discovered =
               ev.before.discovered \cup (IF matched THEN WalkEdges(ev.walk) ELSE {})
          /\ truePaths = IF matched /\ ~rewired
                         THEN Append(ev.before.truePaths, ev.target)
                         ELSE ev.before.truePaths
          /\ falsePaths = IF matched /\ rewired
                          THEN Append(ev.before.falsePaths, ev.target)
                          ELSE ev.before.falsePaths

\* the second search iterated the edges of S in the other order: the two
\* lists of matched genes differ, the discovered sets do not
C13_Witness ==
  /\ SecondDone
  /\ truePaths /= first[1].truePaths
  /\ Len(truePaths) >= 2
  /\ discovered = first[1].discovered
  /\ discovered /= {}

(***************************************************************************)
(* Properties of classifyState.                                            *)
(***************************************************************************)
Returned == result /= <<>>

PlusMinus(sign) == IF sign = "+" THEN 1 ELSE IF sign = "-" THEN -1 ELSE 0

\* C4: the keys of combined are those of up_signs and of down_signs; a
\* gene of up_signs has its up sign in combined, also when its down sign
\* differs; a gene of down_signs only has its down sign; transcriptional has
\* the keys of down_signs, each with its down sign.
C4_UpSignWinsInCombined ==
  Returned =>
    LET combined == result[1][1]
        transcriptional == result[1][2]
    IN /\ DOMAIN combined = DOMAIN up_signs \cup DOMAIN down_signs
       /\ \A g \in DOMAIN up_signs : combined[g] = PlusMinus(up_signs[g])
       /\ \A g \in DOMAIN down_signs \ DOMAIN up_signs :
            combined[g] = PlusMinus(down_signs[g])
       /\ DOMAIN transcriptional = DOMAIN down_signs
       /\ \A g \in DOMAIN down_signs : transcriptional[g] = PlusMinus(down_signs[g])

\* returned for a gene whose up sign and down sign differ
C4_Witness ==
  /\ Returned
  /\ \E g \in DOMAIN up_signs \cap DOMAIN down_signs : up_signs[g] /= down_signs[g]
  /\ DOMAIN down_signs \ DOMAIN up_signs /= {}

ExampleCall ==
  /\ up_signs = [A |-> "+", B |-> "-"]
  /\ down_signs = [B |-> "+", C |-> "-"]

\* C5 as stated: for up = {A: +, B: -} and down = {B: +, C: -}
\* classifyState returns combined {A: 1, B: 1, C: -1} and transcriptional
\* {B: 1, C: -1}.
C5_ExampleAsStated ==
  (ExampleCall /\ Returned) =>
    result[1] = <<[A |-> 1, B |-> 1, C |-> -1], [B |-> 1, C |-> -1]>>

\* C5 amended: for up = {A: +, B: -} and down = {B: +, C: -} classifyState
\* returns combined {A: 1, B: -1, C: -1}, B taking its up sign, and
\* transcriptional {B: 1, C: -1}.
C5_ExampleUpSignOfB ==
  (ExampleCall /\ Returned) =>
    result[1] = <<[A |-> 1, B |-> -1, C |-> -1], [B |-> 1, C |-> -1]>>

C5_Witness == ExampleCall /\ Returned /\ result[1][1]["B"] = -1

C10_NetRestrictedToUniverse ==
  (pn_returned /\ gene_universe /= <<>>) =>
    LET universe == gene_universe[1] IN
    /\ \A s \in DOMAIN pn_net : \A e \in pn_net[s] :
         s \in universe /\ e[2] \in universe
    /\ \A k \in 1..Len(file) :
         (file[k][1] \in universe /\ file[k][3] \in universe) =>
           /\ file[k][1] \in DOMAIN pn_net
           /\ <<file[k][2], file[k][3]>> \in pn_net[file[k][1]]
====
